---- MODULE Spec2Model ----
(***************************************************************************)
(* DraftKings player-prop scraper (src/app.py): the in-memory cache held   *)
(* in the module globals cached_props_data / cache_timestamp, the request  *)
(* handlers that read and refresh it, and the aggregator                   *)
(* scrape_player_props with its row parser and duplicate check.            *)
(*                                                                         *)
(* Time is counted in minutes.  Text is a sequence of one-character        *)
(* strings, so that strip() and the bet-line pattern are computed.         *)
(*                                                                         *)
(* Spec     the request handlers run by concurrent server threads; a step  *)
(*          is one access to a module global, the places where the         *)
(*          interpreter may switch threads.  An aggregator run only        *)
(*          touches locals, so it is one step between its call and its     *)
(*          return.                                                        *)
(* SpecSolo the same handlers, the requests served one at a time.          *)
(* SpecAgg  an aggregator run, target by target and row by row, the fetch  *)
(*          of a target being free to fail or never to answer, and a       *)
(*          second run over the pages of the first.                        *)
(* SpecLine convert_bet_line and parse_prop_row called on a bet line.      *)
(* SpecViews get_top_props_by_sport and get_converted_lines called on a    *)
(*          collection.                                                    *)
(***************************************************************************)
EXTENDS Integers, Sequences, FiniteSets, TLC

VARIABLES
    cached_props_data,  \* app.py:20  the held collection
    cache_timestamp,    \* app.py:21  None or the minute it was set
    clock,              \* datetime.now(), in minutes
    data_run,           \* history: the run whose result cached_props_data is (0: none)
    ts_run,             \* history: the run whose completion cache_timestamp records (0: none)
    runs,               \* history: the last run identifier handed out (1: the start-up run's)
    calls,              \* history: per handler, the number of requests started
    pc,                 \* per thread: position in its handler
    op,                 \* per thread: the handler it runs
    loc,                \* per thread: the handler's locals
    agg_pc,             \* SpecAgg: position in scrape_player_props
    target_i,           \* SpecAgg: index of the (sport, date_range) being scraped
    prop_rows,          \* SpecAgg: rows of the current page still to parse
    all_props_data,     \* SpecAgg: the accumulator of scrape_player_props
    fetched,            \* SpecAgg history: per target visited, the rows its page gave
    applied             \* history: the last call of a pure function, its arguments and result

vars == << cached_props_data, cache_timestamp, clock, data_run, ts_run, runs, calls,
           pc, op, loc, agg_pc, target_i, prop_rows, all_props_data, fetched, applied >>

cacheVars == << cached_props_data, cache_timestamp, data_run, ts_run >>
threadVars == << runs, calls, pc, op, loc >>
aggVars == << agg_pc, target_i, prop_rows, all_props_data, fetched >>

----------------------------------------------------------------------------
(* Bounds of the model. *)

\* the clock stops advancing here
MaxClock == 31
\* requests started in one behaviour of Spec
MaxCalls == 2
\* rows the remote pages hold, over one aggregator run of SpecAgg
MaxRows == 2
\* in SpecAgg the pages of the first MaxLive targets, and of the last one,
\* may hold rows; the other targets fail or have nothing
MaxLive == 5
\* characters of the bet lines given to convert_bet_line in SpecLine
MaxLineLen == 4
\* records of the collections given to the views in SpecViews
MaxProps == 3
\* the limits given to get_top_props_by_sport in SpecViews are 0..MaxLimit
MaxLimit == 2
Threads == {"t1", "t2"}

\* the clock advances by one of these steps (minutes)
TickSteps == {15, 16}

----------------------------------------------------------------------------
(* Program constants. *)

CACHE_DURATION_MINUTES == 30

\* Python's None, for cache_timestamp
None == -1

\* what parse_prop_row returns for a row it rejects
NoProp == << >>

WS == {" ", "\t", "\n"}
Digits == <<"0", "1", "2", "3", "4", "5", "6", "7", "8", "9">>

sport_configs ==
    << [key |-> "mlb", id |-> 84240, name |-> "MLB", date_ranges |-> <<"today", "tomorrow">>],
       [key |-> "wnba", id |-> 94682, name |-> "WNBA", date_ranges |-> <<"today", "tomorrow">>],
       [key |-> "nba", id |-> 42648, name |-> "NBA", date_ranges |-> <<"today", "tomorrow">>],
       [key |-> "nhl", id |-> 42133, name |-> "NHL", date_ranges |-> <<"today", "tomorrow">>],
       [key |-> "nfl", id |-> 88808, name |-> "NFL", date_ranges |-> <<"today", "tomorrow">>],
       [key |-> "ufc", id |-> 9034, name |-> "UFC", date_ranges |-> <<"today", "tomorrow">>],
       [key |-> "ncaaf", id |-> 87637, name |-> "NCAA Football",
        date_ranges |-> <<"today", "tomorrow">>],
       [key |-> "ncaa_basketball", id |-> 92483, name |-> "NCAA Basketball",
        date_ranges |-> <<"today", "tomorrow">>],
       [key |-> "ncaa_womens_basketball", id |-> 36647, name |-> "NCAA Womens Basketball",
        date_ranges |-> <<"today", "tomorrow">>],
       [key |-> "ncaa_baseball", id |-> 41151, name |-> "NCAA Baseball",
        date_ranges |-> <<"today", "tomorrow">>],
       [key |-> "ncaa_ice_hockey", id |-> 84813, name |-> "NCAA Ice Hockey",
        date_ranges |-> <<"today", "tomorrow">>],
       [key |-> "mls", id |-> 89345, name |-> "MLS", date_ranges |-> <<"today">>],
       [key |-> "premier_league", id |-> 40253, name |-> "England Premier League",
        date_ranges |-> <<"today">>],
       [key |-> "champions_league", id |-> 40685, name |-> "Champions League",
        date_ranges |-> <<"today">>],
       [key |-> "europa_league", id |-> 41410, name |-> "Europa League",
        date_ranges |-> <<"today">>] >>

----------------------------------------------------------------------------
(* Text helpers. *)

RECURSIVE LStrip(_)
LStrip(s) == IF s /= << >> /\ Head(s) \in WS THEN LStrip(Tail(s)) ELSE s

RECURSIVE RStrip(_)
RStrip(s) ==
    IF s /= << >> /\ s[Len(s)] \in WS THEN RStrip(SubSeq(s, 1, Len(s) - 1)) ELSE s

\* str.strip()
Strip(s) == RStrip(LStrip(s))

IsDigit(c) == \E i \in 1..Len(Digits) : Digits[i] = c
DigitVal(c) == (CHOOSE i \in 1..Len(Digits) : Digits[i] = c) - 1

\* int(match.group(1))
RECURSIVE ParseInt(_)
ParseInt(ds) ==
    IF ds = << >> THEN 0
    ELSE 10 * ParseInt(SubSeq(ds, 1, Len(ds) - 1)) + DigitVal(ds[Len(ds)])

\* str(k) for k >= 0
RECURSIVE IntStr(_)
IntStr(k) == IF k < 10 THEN << Digits[k + 1] >> ELSE IntStr(k \div 10) \o << Digits[(k % 10) + 1] >>

\* re.match(r'^(\d+)\+$', s): one or more digits, then '+', then the end
MatchesNumberPlus(s) ==
    /\ Len(s) >= 2
    /\ s[Len(s)] = "+"
    /\ \A i \in 1..(Len(s) - 1) : IsDigit(s[i])

\* f"{number - 0.5}": the float's repr; number - 0.5 is exact in the range modelled
FormatMinusHalf(number) ==
    IF number = 0 THEN <<"-", "0", ".", "5">> ELSE IntStr(number - 1) \o <<".", "5">>

\* Python's None where a bet line is expected: no text at all
NoLine == << "None" >>

\* the pattern tried on the line as it came, without strip()
ConvertUnstripped(bet_line) ==
    IF bet_line = NoLine \/ bet_line = << >> THEN bet_line
    ELSE IF MatchesNumberPlus(bet_line)
         THEN <<"O", "v", "e", "r", " ">>
              \o FormatMinusHalf(ParseInt(SubSeq(bet_line, 1, Len(bet_line) - 1)))
         ELSE bet_line

\* `if not bet_line` holds for None and for the empty string
convert_bet_line(bet_line) ==
    IF bet_line = NoLine \/ bet_line = << >> THEN bet_line
    ELSE IF MatchesNumberPlus(Strip(bet_line))
         THEN <<"O", "v", "e", "r", " ">>
              \o FormatMinusHalf(ParseInt(SubSeq(Strip(bet_line), 1, Len(Strip(bet_line)) - 1)))
         ELSE bet_line

----------------------------------------------------------------------------
(* The remote pages.  A row is its sequence of <td> cells; a cell is its   *)
(* text and, when it holds an <a>, the link's text and href.               *)

NoLink == << >>
Cell(text) == [text |-> text, a |-> NoLink]
LinkCell(text, href) == [text |-> text, a |-> << [text |-> text, href |-> href] >>]

\* a full row: "2+" line, odds in a link
RowA == << Cell(<<"E">>), Cell(<<"D">>), Cell(<<"M">>), Cell(<<"2", "+">>),
           LinkCell(<<"+", "1">>, <<"u">>) >>
\* the same event, market and line with padding, other odds, no link
RowA2 == << Cell(<<" ", "E">>), Cell(<<"D">>), Cell(<<"M", "\n">>), Cell(<<"2", "+", " ">>),
            Cell(<<"-", "3">>) >>
\* another line, not of the form number+
RowB == << Cell(<<"E">>), Cell(<<"D">>), Cell(<<"M">>), Cell(<<"O", "2">>),
           LinkCell(<<"+", "1">>, << >>) >>
\* a row with fewer than 5 cells
RowShort == << Cell(<<"E">>), Cell(<<"D">>), Cell(<<"M">>), Cell(<<"2", "+">>) >>

\* the rows the pages of SpecAgg are made of
RawRows == {RowA, RowA2, RowB, RowShort}

\* the pages of 1 to n rows
Pages(n) == UNION { [1..k -> RawRows] : k \in 1..n }

\* what fetching and parsing one target's page comes to (app.py:106-123):
\* an exception, nothing to loop over, or the rows of the table ("Rows")
Failures == {"ConnectionError", "HTTPError", "ParseError"}
Absent == {"NoTable", "NoTbody", "NoRows"}
Outcome(kind, rows) == [kind |-> kind, rows |-> rows]

\* every sport scraped for today and for tomorrow
TargetsBothDays ==
    [n \in 1..(2 * Len(sport_configs)) |->
        [sport |-> (n + 1) \div 2,
         date_range |-> IF n % 2 = 1 THEN "today" ELSE "tomorrow"]]

\* the (sport, date_range) targets in the order the two loops visit them
RECURSIVE TargetsFrom(_)
TargetsFrom(i) ==
    IF i > Len(sport_configs) THEN << >>
    ELSE [j \in 1..Len(sport_configs[i].date_ranges) |->
              [sport |-> i, date_range |-> sport_configs[i].date_ranges[j]]]
         \o TargetsFrom(i + 1)

Targets == TargetsFrom(1)
NumTargets == Len(Targets)
SportName(t) == sport_configs[Targets[t].sport].name

----------------------------------------------------------------------------
(* parse_prop_row and the duplicate check. *)

parse_prop_row(row, sport_name, date_range, now) ==
    IF Len(row) < 5 THEN NoProp
    ELSE LET betslip_line == Strip(row[4].text)
             odds_cell == row[5]
         IN  << [event |-> Strip(row[1].text),
                 event_date |-> Strip(row[2].text),
                 market |-> Strip(row[3].text),
                 betslip_line |-> betslip_line,
                 converted_betslip_line |-> convert_bet_line(betslip_line),
                 odds |-> IF odds_cell.a /= NoLink THEN Strip(odds_cell.a[1].text)
                          ELSE Strip(odds_cell.text),
                 draftkings_url |-> IF odds_cell.a /= NoLink THEN odds_cell.a[1].href
                                    ELSE << >>,
                 sport |-> sport_name,
                 scraped_date_range |-> date_range,
                 scraped_timestamp |-> now] >>

\* the duplicate check with the sport compared as well
SameKeyAndSport(existing, prop_data) ==
    /\ existing.event = prop_data.event
    /\ existing.event_date = prop_data.event_date
    /\ existing.market = prop_data.market
    /\ existing.betslip_line = prop_data.betslip_line
    /\ existing.scraped_date_range = prop_data.scraped_date_range
    /\ existing.sport = prop_data.sport

SameKey(existing, prop_data) ==
    /\ existing.event = prop_data.event
    /\ existing.event_date = prop_data.event_date
    /\ existing.market = prop_data.market
    /\ existing.betslip_line = prop_data.betslip_line
    /\ existing.scraped_date_range = prop_data.scraped_date_range

duplicate(props, prop_data) ==
    \E i \in 1..Len(props) : SameKey(props[i], prop_data)

\* a row loop in which the later of two rows with one key takes the place
\* of the earlier
AddRowKeepLast(props, row, t, now) ==
    LET parsed == parse_prop_row(row, SportName(t), Targets[t].date_range, now)
    IN  IF parsed = NoProp THEN props
        ELSE IF duplicate(props, parsed[1])
        THEN [i \in 1..Len(props) |->
                 IF SameKey(props[i], parsed[1]) THEN parsed[1] ELSE props[i]]
        ELSE Append(props, parsed[1])

\* one turn of the row loop (app.py:126-143)
AddRow(props, row, t, now) ==
    LET parsed == parse_prop_row(row, SportName(t), Targets[t].date_range, now)
    IN  IF parsed = NoProp THEN props
        ELSE IF duplicate(props, parsed[1]) THEN props
        ELSE Append(props, parsed[1])

RECURSIVE AddRows(_, _, _, _)
AddRows(props, rows, t, now) ==
    IF rows = << >> THEN props
    ELSE AddRows(AddRow(props, Head(rows), t, now), Tail(rows), t, now)

\* the rows the row loop of a target gets to see: none when the fetch or
\* the page parse raised, or the table or its tbody is missing
RowsSeen(outcome) == IF outcome.kind = "Rows" THEN outcome.rows ELSE << >>

\* a whole run over the pages site[1..NumTargets], every record stamped now
RECURSIVE ScrapeFrom(_, _, _, _)
ScrapeFrom(props, t, site, now) ==
    IF t > NumTargets THEN props
    ELSE ScrapeFrom(AddRows(props, RowsSeen(site[t]), t, now), t + 1, site, now)

scrape_player_props(site, now) == ScrapeFrom(<< >>, 1, site, now)

\* the remote as the runs of Spec find it
SiteDown == [t \in 1..NumTargets |-> Outcome("ConnectionError", << >>)]
SiteQuiet == [t \in 1..NumTargets |-> Outcome("NoTable", << >>)]
SiteBusy ==
    [t \in 1..NumTargets |->
        IF t = 1 THEN Outcome("Rows", <<RowA, RowShort, RowA2>>)
        ELSE IF t = 3 THEN Outcome("Rows", <<RowB, RowA>>)
        ELSE IF t = NumTargets THEN Outcome("Rows", <<RowA>>)
        ELSE IF t % 2 = 0 THEN Outcome("HTTPError", << >>)
        ELSE Outcome("NoTbody", << >>)]
Sites == {SiteDown, SiteQuiet, SiteBusy}

----------------------------------------------------------------------------
(* The cache and the request handlers (Spec). *)

ReadOp == "get_all_props"
RefreshOp == "refresh_props_cache"
Ops == {ReadOp, RefreshOp}

InitLoc ==
    [fresh_data |-> << >>,        \* get_cached_or_fresh_data's fresh_data
     run |-> 0,                   \* history: the run this call started (0: none)
     scrapes |-> 0,               \* history: aggregator runs this call started
     within_ttl |-> FALSE,        \* history: see WithinTTLOfGet
     from_run |-> 0,              \* history: the run whose result props is
     stale_at_call |-> FALSE,     \* history: is_cache_expired held when the request began
     fresh_age |-> None,          \* history: the cache_age is_cache_expired has just found
                                  \* not to exceed the TTL (None: no such answer)
     props |-> << >>,             \* the handler's props: what get_cached_or_fresh_data returned
     cached |-> FALSE]            \* the 'cached' field of the response

\* a cache that expires on reaching the TTL
ExpiredAtTTL(now, timestamp) == now - timestamp >= CACHE_DURATION_MINUTES

\* now - cache_timestamp > timedelta(minutes=CACHE_DURATION_MINUTES)
Expired(now, timestamp) == now - timestamp > CACHE_DURATION_MINUTES

\* is_cache_expired() evaluated in one piece
is_cache_expired == cache_timestamp = None \/ Expired(clock, cache_timestamp)

\* run identifiers: 0 is no run, 1 the start-up run (app.py:441), whether or
\* not it took place; the runs of requests follow
StartupRun == 1

\* history: the held timestamp was recorded by the refresh of a request and
\* is within the TTL now
WithinTTLOfGet ==
    /\ ts_run > StartupRun
    /\ cache_timestamp /= None
    /\ ~Expired(clock, cache_timestamp)

InFlight == {t \in Threads : pc[t] = "scraping"}
TotalCalls == calls[ReadOp] + calls[RefreshOp]

\* the handler returns from get_cached_or_fresh_data to its own next line
AfterGet(t) == IF op[t] = ReadOp THEN "L266" ELSE "L383"

\* app.py:43, the call: an aggregator run is now in flight for thread t
StartScrape(t) ==
    /\ pc' = [pc EXCEPT ![t] = "scraping"]
    /\ runs' = runs + 1
    /\ loc' = [loc EXCEPT ![t].run = runs + 1,
                          ![t].scrapes = @ + 1,
                          ![t].within_ttl = @ /\ WithinTTLOfGet]

\* a request arrives and a free server thread (which one makes no difference)
\* starts its handler
Begin(t, o) ==
    /\ pc[t] = "idle"
    /\ t = CHOOSE u \in Threads : pc[u] = "idle"
    /\ TotalCalls < MaxCalls
    /\ calls' = [calls EXCEPT ![o] = @ + 1]
    /\ op' = [op EXCEPT ![t] = o]
    /\ pc' = [pc EXCEPT ![t] = IF o = ReadOp THEN "L38" ELSE "L377"]
    /\ loc' = [loc EXCEPT ![t] = [InitLoc EXCEPT !.within_ttl = WithinTTLOfGet,
                                                 !.stale_at_call = is_cache_expired]]
    /\ UNCHANGED << cacheVars, clock, runs, aggVars, applied >>

\* app.py:377  cached_props_data = []
L377(t) ==
    /\ pc[t] = "L377"
    /\ cached_props_data' = << >>
    /\ data_run' = 0
    /\ pc' = [pc EXCEPT ![t] = "L378"]
    /\ UNCHANGED << cache_timestamp, ts_run, clock, runs, calls, op, loc, aggVars, applied >>

\* app.py:378  cache_timestamp = None; app.py:379 calls get_cached_or_fresh_data
L378(t) ==
    /\ pc[t] = "L378"
    /\ cache_timestamp' = None
    /\ ts_run' = 0
    /\ pc' = [pc EXCEPT ![t] = "L38"]
    /\ UNCHANGED << cached_props_data, data_run, clock, runs, calls, op, loc, aggVars, applied >>

\* app.py:38  `if cached_props_data and ...`: the truth value of the held list
L38(t) ==
    /\ pc[t] = "L38"
    /\ IF cached_props_data /= << >>
       THEN pc' = [pc EXCEPT ![t] = "L27"] /\ UNCHANGED << runs, loc >>
       ELSE StartScrape(t)
    /\ UNCHANGED << cacheVars, clock, calls, op, aggVars, applied >>

\* app.py:27  `if cache_timestamp is None: return True`
L27(t) ==
    /\ pc[t] = "L27"
    /\ IF cache_timestamp /= None
       THEN pc' = [pc EXCEPT ![t] = "L31"] /\ UNCHANGED << runs, loc >>
       ELSE StartScrape(t)
    /\ UNCHANGED << cacheVars, clock, calls, op, aggVars, applied >>

\* app.py:30-32  now - cache_timestamp, the second read of the global: a
\* TypeError when it has become None, else the comparison with the TTL
L31(t) ==
    /\ pc[t] = "L31"
    /\ IF cache_timestamp = None
       THEN pc' = [pc EXCEPT ![t] = "error"] /\ UNCHANGED << runs, loc >>
       ELSE IF Expired(clock, cache_timestamp)
       THEN StartScrape(t)
       ELSE /\ pc' = [pc EXCEPT ![t] = "L39"]
            /\ loc' = [loc EXCEPT ![t].fresh_age = clock - cache_timestamp]
            /\ UNCHANGED runs
    /\ UNCHANGED << cacheVars, clock, calls, op, aggVars, applied >>

\* app.py:39  the age printed: datetime.now() - cache_timestamp, a third read
L39(t) ==
    /\ pc[t] = "L39"
    /\ pc' = [pc EXCEPT ![t] = IF cache_timestamp = None THEN "error" ELSE "L40"]
    /\ loc' = [loc EXCEPT ![t].fresh_age = None]
    /\ UNCHANGED << cacheVars, clock, runs, calls, op, aggVars, applied >>

\* app.py:40  return cached_props_data: the global as it is now
L40(t) ==
    /\ pc[t] = "L40"
    /\ loc' = [loc EXCEPT ![t].props = cached_props_data, ![t].from_run = data_run]
    /\ pc' = [pc EXCEPT ![t] = AfterGet(t)]
    /\ UNCHANGED << cacheVars, clock, runs, calls, op, aggVars, applied >>

\* app.py:43  scrape_player_props() runs to its return
ScrapeRun(t, site) ==
    /\ pc[t] = "scraping"
    /\ loc' = [loc EXCEPT ![t].fresh_data = scrape_player_props(site, clock),
                          ![t].within_ttl = FALSE]
    /\ pc' = [pc EXCEPT ![t] = "L44"]
    /\ UNCHANGED << cacheVars, clock, runs, calls, op, aggVars, applied >>

\* the store of the collection left out
L44Keep(t) ==
    /\ pc[t] = "L44"
    /\ pc' = [pc EXCEPT ![t] = "L45"]
    /\ UNCHANGED << cacheVars, clock, runs, calls, op, loc, aggVars, applied >>

\* app.py:44  cached_props_data = fresh_data
L44(t) ==
    /\ pc[t] = "L44"
    /\ cached_props_data' = loc[t].fresh_data
    /\ data_run' = loc[t].run
    /\ pc' = [pc EXCEPT ![t] = "L45"]
    /\ UNCHANGED << cache_timestamp, ts_run, clock, runs, calls, op, loc, aggVars, applied >>

\* app.py:45-46  cache_timestamp = datetime.now(); return fresh_data
L45(t) ==
    /\ pc[t] = "L45"
    /\ cache_timestamp' = clock
    /\ ts_run' = loc[t].run
    /\ loc' = [loc EXCEPT ![t].props = loc[t].fresh_data, ![t].from_run = loc[t].run]
    /\ pc' = [pc EXCEPT ![t] = AfterGet(t)]
    /\ UNCHANGED << cached_props_data, data_run, clock, runs, calls, op, aggVars, applied >>

\* app.py:266  'cached': bool(cached_props_data)
L266(t) ==
    /\ pc[t] = "L266"
    /\ loc' = [loc EXCEPT ![t].cached = (cached_props_data /= << >>),
                          ![t].stale_at_call = FALSE]
    /\ pc' = [pc EXCEPT ![t] = "L267"]
    /\ UNCHANGED << cacheVars, clock, runs, calls, op, aggVars, applied >>

\* app.py:267 and 383  `... if cache_timestamp else ...`: the condition
AgeTest(t) ==
    /\ pc[t] \in {"L267", "L383"}
    /\ pc' = [pc EXCEPT ![t] = IF cache_timestamp = None THEN "done"
                               ELSE IF pc[t] = "L267" THEN "L267b" ELSE "L383b"]
    /\ UNCHANGED << cacheVars, clock, runs, calls, op, loc, aggVars, applied >>

\* app.py:267 and 383  datetime.now() - cache_timestamp, cache_timestamp.isoformat():
\* the global read again, an error when it has become None
AgeRead(t) ==
    /\ pc[t] \in {"L267b", "L383b"}
    /\ pc' = [pc EXCEPT ![t] = IF cache_timestamp = None THEN "error" ELSE "done"]
    /\ UNCHANGED << cacheVars, clock, runs, calls, op, loc, aggVars, applied >>

\* the response is sent (an unhandled error: the server's 500) and the thread is free
Respond(t) ==
    /\ pc[t] \in {"done", "error"}
    /\ pc' = [pc EXCEPT ![t] = "idle"]
    /\ op' = [op EXCEPT ![t] = ReadOp]
    /\ loc' = [loc EXCEPT ![t] = InitLoc]
    /\ UNCHANGED << cacheVars, clock, runs, calls, aggVars, applied >>

\* no pure function has been called yet
NoCall == [fn |-> "none"]

Tick(d) ==
    /\ clock + d <= MaxClock
    /\ clock' = clock + d
    /\ UNCHANGED << cacheVars, threadVars, aggVars, applied >>

\* the globals when the server starts to serve: as the module sets them
\* (app.py:20-21), or, run as a script, filled by the run of app.py:441-445
Boots ==
    {[data |-> << >>, timestamp |-> None, run |-> 0]}
    \cup {[data |-> scrape_player_props(site, 0), timestamp |-> 0, run |-> StartupRun] :
             site \in Sites}

Init ==
    /\ \E boot \in Boots :
          /\ cached_props_data = boot.data
          /\ cache_timestamp = boot.timestamp
          /\ data_run = boot.run
          /\ ts_run = boot.run
    /\ runs = StartupRun
    /\ clock = 0
    /\ calls = [o \in Ops |-> 0]
    /\ pc = [t \in Threads |-> "idle"]
    /\ op = [t \in Threads |-> ReadOp]
    /\ loc = [t \in Threads |-> InitLoc]
    /\ agg_pc = "idle"
    /\ target_i = 1
    /\ prop_rows = << >>
    /\ all_props_data = << >>
    /\ fetched = << >>
    /\ applied = NoCall

Next ==
    \/ \E t \in Threads, o \in Ops : Begin(t, o)
    \/ \E t \in Threads : L377(t)
    \/ \E t \in Threads : L378(t)
    \/ \E t \in Threads : L38(t)
    \/ \E t \in Threads : L27(t)
    \/ \E t \in Threads : L31(t)
    \/ \E t \in Threads : L39(t)
    \/ \E t \in Threads : L40(t)
    \/ \E t \in Threads, site \in Sites : ScrapeRun(t, site)
    \/ \E t \in Threads : L44(t)
    \/ \E t \in Threads : L45(t)
    \/ \E t \in Threads : L266(t)
    \/ \E t \in Threads : AgeTest(t)
    \/ \E t \in Threads : AgeRead(t)
    \/ \E t \in Threads : Respond(t)
    \/ \E d \in TickSteps : Tick(d)

Spec == Init /\ [][Next]_vars

----------------------------------------------------------------------------
(* The same handlers with the requests served one at a time (SpecSolo): a  *)
(* request begins only when no other is in progress.                       *)

BeginAlone(t, o) ==
    /\ \A u \in Threads : pc[u] = "idle"
    /\ Begin(t, o)

NextSolo ==
    \/ \E t \in Threads, o \in Ops : BeginAlone(t, o)
    \/ \E t \in Threads : L377(t)
    \/ \E t \in Threads : L378(t)
    \/ \E t \in Threads : L38(t)
    \/ \E t \in Threads : L27(t)
    \/ \E t \in Threads : L31(t)
    \/ \E t \in Threads : L39(t)
    \/ \E t \in Threads : L40(t)
    \/ \E t \in Threads, site \in Sites : ScrapeRun(t, site)
    \/ \E t \in Threads : L44(t)
    \/ \E t \in Threads : L45(t)
    \/ \E t \in Threads : L266(t)
    \/ \E t \in Threads : AgeTest(t)
    \/ \E t \in Threads : AgeRead(t)
    \/ \E t \in Threads : Respond(t)
    \/ \E d \in TickSteps : Tick(d)

SpecSolo == Init /\ [][NextSolo]_vars

----------------------------------------------------------------------------
(* One aggregator run, step by step (SpecAgg). *)

RECURSIVE RowCount(_)
RowCount(pages) == IF pages = << >> THEN 0 ELSE Len(Head(pages)) + RowCount(Tail(pages))

LiveTargets == (1..MaxLive) \cup {NumTargets}

\* what the fetch of the next target may come to: an exception, a page
\* without the table or its tbody, a page of rows, or no answer at all
\* In a second run the remote serves what it served in the first.
FetchOutcomes ==
    IF applied /= NoCall
    THEN {Outcome(IF applied.pages[t] = << >> THEN "NoRows" ELSE "Rows", applied.pages[t]) :
              t \in {target_i} \cap DOMAIN applied.pages}
    ELSE {Outcome(k, << >>) : k \in Failures \cup Absent \cup {"NoAnswer"}}
         \cup IF target_i \in LiveTargets
              THEN {Outcome("Rows", rows) : rows \in Pages(MaxRows - RowCount(fetched))}
              ELSE {}

\* an exception that ends the run instead of the target
NextTargetAbort(kind, t) == IF kind \in Failures THEN NumTargets + 1 ELSE t + 1

\* app.py:115, 121, 147: `continue`, on to the next date range or sport
NextTarget(kind, t) == t + 1

\* app.py:84  all_props_data = []
AggCall ==
    /\ agg_pc = "idle"
    /\ agg_pc' = "fetch"
    /\ target_i' = 1
    /\ all_props_data' = << >>
    /\ prop_rows' = << >>
    /\ fetched' = << >>
    /\ UNCHANGED << cacheVars, clock, threadVars, applied >>

\* a call that does not start again from the first target
AggCallResume(d) ==
    /\ agg_pc = "done"
    /\ applied = NoCall
    /\ clock + d <= MaxClock
    /\ applied' = [fn |-> "scrape_player_props", pages |-> fetched, ret |-> all_props_data]
    /\ clock' = clock + d
    /\ agg_pc' = "fetch"
    /\ all_props_data' = << >>
    /\ prop_rows' = << >>
    /\ fetched' = fetched
    /\ UNCHANGED << target_i, cacheVars, threadVars >>

\* scrape_player_props is called once more, d minutes after the first run
\* returned, in SpecAgg when the TTL has just passed (app.py:84: the
\* accumulator is a local, created anew); the history keeps the pages and
\* the result of the first run
AggCallAgain(d) ==
    /\ agg_pc = "done"
    /\ applied = NoCall
    /\ clock + d <= MaxClock
    /\ applied' = [fn |-> "scrape_player_props", pages |-> fetched, ret |-> all_props_data]
    /\ clock' = clock + d
    /\ agg_pc' = "fetch"
    /\ target_i' = 1
    /\ all_props_data' = << >>
    /\ prop_rows' = << >>
    /\ fetched' = << >>
    /\ UNCHANGED << cacheVars, threadVars >>

\* app.py:98-124  one (sport, date_range): requests.get(url) with no timeout,
\* raise_for_status, the parse, the table and tbody lookups
FetchTarget(outcome) ==
    /\ agg_pc = "fetch"
    /\ target_i <= NumTargets
    /\ IF outcome.kind = "NoAnswer"
       THEN /\ agg_pc' = "waiting"
            /\ UNCHANGED << target_i, prop_rows, fetched >>
       ELSE /\ fetched' = Append(fetched, RowsSeen(outcome))
            /\ IF outcome.kind = "Rows"
               THEN /\ agg_pc' = "rows"
                    /\ prop_rows' = outcome.rows
                    /\ UNCHANGED target_i
               ELSE /\ agg_pc' = "fetch"
                    /\ target_i' = NextTarget(outcome.kind, target_i)
                    /\ prop_rows' = << >>
    /\ UNCHANGED << all_props_data, cacheVars, clock, threadVars, applied >>

\* app.py:126-143  one row of the page
ParseRow ==
    /\ agg_pc = "rows"
    /\ all_props_data' = AddRow(all_props_data, Head(prop_rows), target_i, clock)
    /\ prop_rows' = Tail(prop_rows)
    /\ IF Tail(prop_rows) = << >>
       THEN agg_pc' = "fetch" /\ target_i' = target_i + 1
       ELSE UNCHANGED << agg_pc, target_i >>
    /\ UNCHANGED << fetched, cacheVars, clock, threadVars, applied >>

\* app.py:153  return all_props_data
AggReturn ==
    /\ agg_pc = "fetch"
    /\ target_i > NumTargets
    /\ agg_pc' = "done"
    /\ UNCHANGED << target_i, prop_rows, all_props_data, fetched,
                    cacheVars, clock, threadVars, applied >>

AggStep ==
    \/ \E outcome \in FetchOutcomes : FetchTarget(outcome)
    \/ ParseRow
    \/ AggReturn

InitAgg == Init /\ cache_timestamp = None

NextAgg ==
    \/ AggCall
    \/ AggStep
    \/ AggCallAgain(CACHE_DURATION_MINUTES + 1)

SpecAgg == InitAgg /\ [][NextAgg]_vars

----------------------------------------------------------------------------
(* The line normaliser and the row parser called on their own (SpecLine). *)

\* the characters the bet lines are made of
LineChars == {"0", "1", "9", "+", " ", "\n", "O"}

\* the lines of up to MaxLineLen characters, and no line at all
BetLines == UNION { [1..k -> LineChars] : k \in 0..MaxLineLen } \cup {NoLine}

\* a table row whose fourth cell holds the text bet_line
LineRow(bet_line) ==
    << Cell(<<"E">>), Cell(<<"D">>), Cell(<<"M">>), Cell(bet_line), Cell(<<"-", "3">>) >>

\* app.py:48-59  convert_bet_line(bet_line)
CallConvert(bet_line) ==
    /\ applied = NoCall
    /\ applied' = [fn |-> "convert_bet_line", bet_line |-> bet_line,
                   ret |-> convert_bet_line(bet_line)]
    /\ UNCHANGED << cacheVars, clock, threadVars, aggVars >>

\* app.py:155-198  parse_prop_row on a row of five cells: a cell always has
\* a text, so the line is never None here
CallParse(bet_line) ==
    /\ applied = NoCall
    /\ bet_line /= NoLine
    /\ applied' = [fn |-> "parse_prop_row", bet_line |-> bet_line,
                   ret |-> parse_prop_row(LineRow(bet_line), "MLB", "today", clock)]
    /\ UNCHANGED << cacheVars, clock, threadVars, aggVars >>

NextLine ==
    /\ applied = NoCall
    /\ \/ \E bet_line \in BetLines : CallConvert(bet_line)
       \/ \E bet_line \in BetLines : CallParse(bet_line)

SpecLine == InitAgg /\ [][NextLine]_vars

----------------------------------------------------------------------------
(* Properties of the cache under concurrent requests (Spec). *)

Finished(t) == pc[t] \in {"idle", "done", "error"}

\* C1: with only get() calls running, at most one aggregator run is in
\* flight at any instant.
C1_AtMostOneRunInFlight ==
    calls[RefreshOp] = 0 => Cardinality(InFlight) <= 1

\* C2: with no forceRefresh() made, a get() that begins and makes its check
\* within the TTL window of the snapshot that an earlier get() recorded
\* starts no aggregator run, whatever that snapshot holds (the empty
\* collection included).
C2_NoRunWithinTTL ==
    calls[RefreshOp] = 0 =>
        \A t \in Threads : pc[t] = "scraping" => ~loc[t].within_ttl

\* C3: a forceRefresh() call that returns has started exactly one
\* aggregator run.
C3_ForceRefreshRunsOnce ==
    \A t \in Threads : (op[t] = RefreshOp /\ pc[t] = "done") => loc[t].scrapes = 1

\* C4: once one get() and one forceRefresh() have both finished, the held
\* collection and the held timestamp were written by one and the same run
\* (the later-completing or the forced one: one of the runs of the two calls).
C4_SingleWriter ==
    (/\ calls[ReadOp] = 1
     /\ calls[RefreshOp] = 1
     /\ \A t \in Threads : Finished(t))
    => (data_run = ts_run /\ data_run > StartupRun)

\* C5: in every reachable state the held pair is the initial (empty, absent)
\* or the collection and the completion timestamp of one single run.
C5_ConsistentSnapshot ==
    /\ data_run = ts_run
    /\ data_run = 0 => (cached_props_data = << >> /\ cache_timestamp = None)

\* C15: is_cache_expired answers True exactly when there is no timestamp or
\* the age now - cache_timestamp is greater than the TTL of 30 minutes:
\* line 27 answers True for None only, and lines 30-32 answer True above the
\* TTL and False up to the TTL, the TTL itself included.
C15_StaleStrictlyAboveTTL ==
    [][\A t \in Threads :
          /\ (pc[t] = "L27" /\ pc'[t] = "scraping") => cache_timestamp = None
          /\ (pc[t] = "L27" /\ pc'[t] = "L31") => cache_timestamp /= None
          /\ (pc[t] = "L31" /\ pc'[t] = "scraping") =>
                 (cache_timestamp /= None /\ clock - cache_timestamp > 30)
          /\ (pc[t] = "L31" /\ pc'[t] = "L39") =>
                 (cache_timestamp /= None /\ clock - cache_timestamp <= 30
                  /\ loc'[t].fresh_age = clock - cache_timestamp)]_vars

\* C15 witness: is_cache_expired has just answered False for a snapshot
\* whose age is the TTL exactly
C15_Witness ==
    \E t \in Threads : pc[t] = "L39" /\ loc[t].fresh_age = CACHE_DURATION_MINUTES

\* get_cached_or_fresh_data has returned to the handler of thread t
Returned(t) == pc[t] \in {"L266", "L267", "L267b", "L383", "L383b", "done"}

\* C16: a get() made, with no other call in progress, while the cache is
\* Fresh (a timestamp is held and its age is at most the TTL) starts no
\* aggregator run, leaves the held collection and timestamp as they were and
\* returns the held collection.  (The cache being Fresh now, with the
\* timestamp of before the call, it was Fresh all through the call.)
C16_FreshGetLeavesCache ==
    \A t \in Threads :
        (/\ op[t] = ReadOp /\ pc[t] /= "idle"
         /\ ts_run /= loc[t].run
         /\ cache_timestamp /= None
         /\ clock - cache_timestamp <= CACHE_DURATION_MINUTES)
        => /\ loc[t].scrapes = 0
           /\ data_run = ts_run
           /\ Returned(t) => loc[t].props = cached_props_data

\* C17: a get() made while the cache is Stale, with no other call in
\* progress, does not serve from the cache; at its return from get_cached_or_fresh_data
\* it has run the aggregator once, the held collection is the run's result
\* and is what it returns, and the held timestamp is the time of the return,
\* so the cache is Fresh, and is not earlier than any record's stamp.
C17_StaleGetRefreshes ==
    [][\A t \in Threads :
          (op[t] = ReadOp /\ pc[t] /= "idle" /\ loc[t].stale_at_call) =>
              /\ pc'[t] \notin {"L39", "L40", "error"}
              /\ (pc[t] = "L45" /\ pc'[t] = "L266") =>
                     /\ loc'[t].scrapes = 1
                     /\ loc'[t].props = loc[t].fresh_data
                     /\ cached_props_data' = loc'[t].props
                     /\ data_run' = loc[t].run /\ ts_run' = loc[t].run
                     /\ cache_timestamp' = clock'
                     /\ clock' - cache_timestamp' <= CACHE_DURATION_MINUTES
                     /\ \A i \in 1..Len(loc'[t].props) :
                            loc'[t].props[i].scraped_timestamp <= cache_timestamp']_vars

\* C17 witness: such a get() has returned records from get_cached_or_fresh_data,
\* time having passed between the run and the store of the timestamp
C17_Witness ==
    \E t \in Threads :
        /\ op[t] = ReadOp /\ loc[t].stale_at_call
        /\ pc[t] = "L266"
        /\ loc[t].scrapes = 1
        /\ loc[t].props /= << >>
        /\ cached_props_data = loc[t].props
        /\ \A i \in 1..Len(loc[t].props) :
               loc[t].props[i].scraped_timestamp < cache_timestamp

\* C20: the collection get_cached_or_fresh_data returns is the result of an
\* aggregator run that has returned: the start-up run's or a request's, and
\* never the empty list that refresh_props_cache stores at line 377.
C20_ReturnsARunsResult ==
    \A t \in Threads : Returned(t) => loc[t].from_run >= StartupRun

\* C9: no call ends in an unhandled error.
C9_NoUnhandledError ==
    \A t \in Threads : pc[t] /= "error"

\* C10: the 'cached' field of a read endpoint's response is true exactly when
\* the request ran no aggregator.
C10_CachedMeansServedFromCache ==
    \A t \in Threads :
        (op[t] = ReadOp /\ pc[t] = "done") => (loc[t].cached <=> loc[t].scrapes = 0)

----------------------------------------------------------------------------
(* Properties of an aggregator run (SpecAgg). *)

KeyOf(r) == << r.event, r.event_date, r.market, r.betslip_line, r.scraped_date_range >>

WithKey(props, k) == {i \in 1..Len(props) : KeyOf(props[i]) = k}

\* the rows of target t the row loop has been through
Processed(t) ==
    IF t = target_i /\ agg_pc = "rows"
    THEN SubSeq(fetched[t], 1, Len(fetched[t]) - Len(prop_rows))
    ELSE fetched[t]

\* the keys of the rows of target t extracted so far
ExtractedKeys(t) ==
    {KeyOf(parse_prop_row(Processed(t)[n], SportName(t), Targets[t].date_range, clock)[1]) :
        n \in {m \in 1..Len(Processed(t)) : Len(Processed(t)[m]) >= 5}}

\* the target a record was stamped by
TargetOf(r) ==
    CHOOSE t \in 1..NumTargets :
        SportName(t) = r.sport /\ Targets[t].date_range = r.scraped_date_range

\* C6: at every step of a run no two records of the accumulated collection
\* share the 5-tuple, and each 5-tuple extracted so far, from whatever
\* targets, is held exactly once.
C6_DedupByFiveTuple ==
    /\ \A i, j \in 1..Len(all_props_data) :
           i < j => KeyOf(all_props_data[i]) /= KeyOf(all_props_data[j])
    /\ \A t \in 1..Len(fetched) : \A k \in ExtractedKeys(t) :
           Cardinality(WithKey(all_props_data, k)) = 1

\* C6 witness: a finished run that extracted the same 5-tuple from the pages
\* of two different sports
C6_Witness ==
    /\ agg_pc = "done"
    /\ \E t1, t2 \in 1..Len(fetched) :
           /\ Targets[t1].sport /= Targets[t2].sport
           /\ ExtractedKeys(t1) \cap ExtractedKeys(t2) /= {}

\* C7: every target is visited whatever became of the ones before it, and
\* the result of the run is the result of the run in which the targets that
\* failed yield a page without rows.
C7_FailedTargetIsolated ==
    /\ agg_pc \in {"fetch", "done"} => Len(fetched) = target_i - 1
    /\ agg_pc = "done" =>
           /\ Len(fetched) = NumTargets
           /\ all_props_data =
                  scrape_player_props([t \in 1..NumTargets |-> Outcome("Rows", fetched[t])],
                                      clock)

\* C7 witness: a finished run in which a target gave nothing and a later
\* target contributed a record
C7_Witness ==
    /\ agg_pc = "done"
    /\ \E t \in 1..NumTargets, i \in 1..Len(all_props_data) :
           fetched[t] = << >> /\ t < TargetOf(all_props_data[i])

\* a collection with the time stamps of its records blanked
Unstamped(props) == [i \in 1..Len(props) |-> [props[i] EXCEPT !.scraped_timestamp = 0]]

\* C13: a second run over the pages of the first returns the records of the
\* first, one by one and in the same order, the scraped_timestamp left aside.
C13_SecondRunSameResult ==
    (agg_pc = "done" /\ applied /= NoCall) =>
        /\ fetched = applied.pages
        /\ Len(all_props_data) = Len(applied.ret)
        /\ Unstamped(all_props_data) = Unstamped(applied.ret)

\* C13 witness: the second run has returned, later than the first, with
\* records, one row at least having been dropped as a duplicate in each run
C13_Witness ==
    /\ agg_pc = "done"
    /\ applied /= NoCall
    /\ all_props_data /= << >>
    /\ Len(all_props_data) < RowCount(fetched)
    /\ \A i \in 1..Len(all_props_data) :
           all_props_data[i].scraped_timestamp > applied.ret[i].scraped_timestamp

\* the records parse_prop_row makes of the rows of target t gone through
ParsedOf(t) ==
    LET HasCells(row) == Len(row) >= 5
        rows == SelectSeq(Processed(t), HasCells)
    IN  [n \in 1..Len(rows) |->
            parse_prop_row(rows[n], SportName(t), Targets[t].date_range, clock)[1]]

\* the records of all rows gone through, in the order they were met
RECURSIVE MetFrom(_)
MetFrom(t) == IF t > Len(fetched) THEN << >> ELSE ParsedOf(t) \o MetFrom(t + 1)

\* of the records met, those that no earlier record met shares the key of
RECURSIVE FirstMetFrom(_, _)
FirstMetFrom(met, i) ==
    IF i > Len(met) THEN << >>
    ELSE (IF \E j \in 1..(i - 1) : KeyOf(met[j]) = KeyOf(met[i]) THEN << >> ELSE << met[i] >>)
         \o FirstMetFrom(met, i + 1)

\* the targets follow the sport table, today before tomorrow within a sport
TableOrder ==
    \A t1, t2 \in 1..NumTargets :
        t1 < t2 =>
            /\ Targets[t1].sport <= Targets[t2].sport
            /\ Targets[t1].sport = Targets[t2].sport =>
                   (Targets[t1].date_range = "today" /\ Targets[t2].date_range = "tomorrow")

\* C18: the targets are visited one after the other in the order of the
\* sport table, today before tomorrow within a sport; of the rows met with
\* one 5-tuple the first is kept as it was stamped, whatever the sport of
\* the later ones, and the collection lists the kept records in the order met.
C18_FirstMetIsKept ==
    /\ TableOrder
    /\ Len(fetched) = IF agg_pc = "rows" THEN target_i ELSE target_i - 1
    /\ all_props_data = FirstMetFrom(MetFrom(1), 1)

\* C18 witness: a finished run met one 5-tuple on the pages of two sports
\* and holds it once, with the sport of the target visited first
C18_Witness ==
    /\ agg_pc = "done"
    /\ \E t1, t2 \in 1..NumTargets : \E k \in ExtractedKeys(t1) \cap ExtractedKeys(t2) :
           /\ t1 < t2
           /\ SportName(t1) /= SportName(t2)
           /\ \A t \in 1..(t1 - 1) : k \notin ExtractedKeys(t)
           /\ \E i \in 1..Len(all_props_data) :
                  KeyOf(all_props_data[i]) = k /\ all_props_data[i].sport = SportName(t1)

\* C19: every record of the accumulated collection has the display name of
\* a configured sport and one of the date ranges configured for that sport.
C19_ConfiguredSportAndRange ==
    \A i \in 1..Len(all_props_data) :
        \E s \in 1..Len(sport_configs) :
            /\ sport_configs[s].name = all_props_data[i].sport
            /\ \E j \in 1..Len(sport_configs[s].date_ranges) :
                   sport_configs[s].date_ranges[j] = all_props_data[i].scraped_date_range

\* C19 witness: a finished run holds a record of a sport scraped for today
\* only and a record scraped for tomorrow
C19_Witness ==
    /\ agg_pc = "done"
    /\ \E i, j \in 1..Len(all_props_data) :
           /\ all_props_data[i].sport = "Europa League"
           /\ all_props_data[i].scraped_date_range = "today"
           /\ all_props_data[j].scraped_date_range = "tomorrow"

\* C8: a run that has not returned can always take a step: no fetch waits
\* without end.
C8_NoFetchWaitsForever ==
    agg_pc \in {"fetch", "rows", "waiting"} => ENABLED AggStep

----------------------------------------------------------------------------
(* Properties of the line normaliser (SpecLine). *)

\* one or more digits, then '+', and nothing else
DigitsThenPlus(s) ==
    /\ s /= << >>
    /\ s = SubSeq(s, 1, Len(s) - 1) \o << "+" >>
    /\ SubSeq(s, 1, Len(s) - 1) /= << >>
    /\ SelectSeq(SubSeq(s, 1, Len(s) - 1), IsDigit) = SubSeq(s, 1, Len(s) - 1)

\* "Over " and n - 0.5 with one decimal place
OverHalfBelow(n) ==
    <<"O", "v", "e", "r", " ">>
    \o (IF n >= 1 THEN IntStr(n - 1) \o <<".", "5">> ELSE <<"-", "0", ".", "5">>)

\* what the normalised form of a raw line is to be
Normalized(raw) ==
    IF raw /= NoLine /\ DigitsThenPlus(Strip(raw))
    THEN OverHalfBelow(ParseInt(SubSeq(Strip(raw), 1, Len(Strip(raw)) - 1)))
    ELSE raw

----------------------------------------------------------------------------
(* The views of the query layer called on a collection (SpecViews). *)

\* records as the aggregator stamps them on the first four targets (MLB and
\* WNBA, today and tomorrow): one with a converted line, one without
SampleProps ==
    { parse_prop_row(row, SportName(t), Targets[t].date_range, 0)[1] :
          row \in {RowA, RowB}, t \in 1..4 }

\* the collections an aggregator run can return over those records: no key
\* twice, the records in the order of their targets
Collections ==
    { c \in UNION { [1..k -> SampleProps] : k \in 0..MaxProps } :
          \A i, j \in 1..Len(c) :
              i < j => (~SameKey(c[i], c[j]) /\ TargetOf(c[i]) <= TargetOf(c[j])) }

Limits == 0..MaxLimit

\* a slice that keeps one record more
SliceThrough(list, limit) == SubSeq(list, 1, IF limit + 1 < Len(list) THEN limit + 1 ELSE Len(list))

\* list[:limit]: a negative limit counts from the end
SliceTo(list, limit) ==
    IF limit >= 0 THEN SubSeq(list, 1, IF limit < Len(list) THEN limit ELSE Len(list))
    ELSE SubSeq(list, 1, IF Len(list) + limit > 0 THEN Len(list) + limit ELSE 0)

\* app.py:212-216  the grouping loop
RECURSIVE GroupBySport(_, _)
GroupBySport(sports_props, props) ==
    IF props = << >> THEN sports_props
    ELSE LET prop == Head(props)
             sport == prop.sport
             grown == IF sport \in DOMAIN sports_props THEN sports_props
                      ELSE sports_props @@ (sport :> << >>)
         IN  GroupBySport([grown EXCEPT ![sport] = Append(@, prop)], Tail(props))

get_top_props_by_sport(props, limit) ==
    LET sports_props == GroupBySport(<< >>, props)
    IN  [sport \in DOMAIN sports_props |-> SliceTo(sports_props[sport], limit)]

\* f"{num/den:.1f}": the quotient in tenths, rounded to the nearest, a half to
\* the even tenth
OneDecimal(num, den) ==
    LET q == (10 * num) \div den
        r == (10 * num) % den
        tenths == IF 2 * r > den \/ (2 * r = den /\ q % 2 = 1) THEN q + 1 ELSE q
    IN  IntStr(tenths \div 10) \o << "." >> \o IntStr(tenths % 10)

\* the rate with one decimal whatever the collection
RateUnguarded(converted, total) ==
    IF total /= 0 THEN OneDecimal(100 * converted, total) \o << "%" >>
    ELSE << "0", ".", "0", "%" >>

\* app.py:434  the 'conversion_rate' of the response
conversion_rate(converted, total) ==
    IF total /= 0 THEN OneDecimal(100 * converted, total) \o << "%" >>
    ELSE << "0", "%" >>

Converted(prop) == prop.betslip_line /= prop.converted_betslip_line

\* app.py:425-434  the response of get_converted_lines for the collection it got
get_converted_lines(all_props) ==
    LET converted_props == SelectSeq(all_props, Converted)
    IN  [converted_props |-> converted_props,
         count |-> Len(converted_props),
         total_props |-> Len(all_props),
         conversion_rate |-> conversion_rate(Len(converted_props), Len(all_props))]

CallTop(props, limit) ==
    /\ applied = NoCall
    /\ applied' = [fn |-> "get_top_props_by_sport", props |-> props, limit |-> limit,
                   ret |-> get_top_props_by_sport(props, limit)]
    /\ UNCHANGED << cacheVars, clock, threadVars, aggVars >>

CallConverted(all_props) ==
    /\ applied = NoCall
    /\ applied' = [fn |-> "get_converted_lines", props |-> all_props,
                   ret |-> get_converted_lines(all_props)]
    /\ UNCHANGED << cacheVars, clock, threadVars, aggVars >>

NextViews ==
    /\ applied = NoCall
    /\ \/ \E props \in Collections, limit \in Limits : CallTop(props, limit)
       \/ \E all_props \in Collections : CallConverted(all_props)

SpecViews == InitAgg /\ [][NextViews]_vars

----------------------------------------------------------------------------
(* Properties of the views (SpecViews). *)

\* the records of one sport in the order they have in the collection
OfSport(c, sport) == LET IsOfSport(p) == p.sport = sport IN SelectSeq(c, IsOfSport)

IsPrefix(s, whole) == Len(s) <= Len(whole) /\ s = SubSeq(whole, 1, Len(s))

\* C12: get_top_props_by_sport returns a group for each sport of the
\* collection and for no other; a group has at most limit records and is a
\* prefix of its sport's records in their order in the collection.
C12_TopPerSport ==
    applied.fn = "get_top_props_by_sport" =>
        /\ DOMAIN applied.ret = {applied.props[i].sport : i \in 1..Len(applied.props)}
        /\ \A sport \in DOMAIN applied.ret :
               /\ Len(applied.ret[sport]) <= applied.limit
               /\ IsPrefix(applied.ret[sport], OfSport(applied.props, sport))
               /\ \A i \in 1..Len(applied.ret[sport]) : applied.ret[sport][i].sport = sport

\* C12 witness: a call on a collection of two sports with a limit that cuts
\* one sport's group short and leaves something of it
C12_Witness ==
    /\ applied.fn = "get_top_props_by_sport"
    /\ Cardinality(DOMAIN applied.ret) = 2
    /\ \E sport \in DOMAIN applied.ret :
           /\ applied.ret[sport] /= << >>
           /\ Len(applied.ret[sport]) < Len(OfSport(applied.props, sport))

\* the rate a string such as "33.3%" states, in tenths of a percent
RateTenths(rate) == ParseInt(SelectSeq(rate, IsDigit))

\* C14: get_converted_lines returns exactly the records whose converted line
\* differs from the raw line, in their order; the rate it reports is
\* converted/total as a percentage to one decimal, and "0%" for the empty
\* collection.
C14_ConvertedOnly ==
    applied.fn = "get_converted_lines" =>
        LET HasConversion(p) == p.converted_betslip_line /= p.betslip_line
            total == Len(applied.props)
            converted == Len(SelectSeq(applied.props, HasConversion))
            rate == applied.ret.conversion_rate
        IN  /\ applied.ret.converted_props = SelectSeq(applied.props, HasConversion)
            /\ applied.ret.count = converted
            /\ applied.ret.total_props = total
            /\ total = 0 => rate = << "0", "%" >>
            /\ total > 0 =>
                   /\ rate[Len(rate)] = "%" /\ rate[Len(rate) - 2] = "."
                   /\ 2 * (RateTenths(rate) * total - 1000 * converted) <= total
                   /\ 2 * (1000 * converted - RateTenths(rate) * total) <= total

\* C14 witness: the view has been taken of the empty collection and has
\* answered with the rate "0%"
C14_Witness ==
    /\ applied.fn = "get_converted_lines"
    /\ applied.props = << >>
    /\ applied.ret.converted_props = << >>
    /\ applied.ret.conversion_rate = << "0", "%" >>

====
